---- MODULE Spec2Model ----
(***************************************************************************)
(* genro-auth: TokenManager (src/genro_auth/tokens.py) on top of           *)
(* MemoryTokenStorage (src/genro_auth/storage.py).                         *)
(*                                                                         *)
(* Python values are modelled as follows.                                  *)
(*   - None is the record [py |-> "None"].                                 *)
(*   - A str that is a token plaintext is a sequence <<n>> (the n-th draw  *)
(*     of secrets.token_urlsafe); its SHA-256 hex digest is <<0>> \o s.    *)
(*   - A datetime is [py |-> "datetime", sec, microsecond]: the fields     *)
(*     year..second are collapsed into one count of seconds, microsecond   *)
(*     is kept as the separate field it is in Python.                      *)
(*   - A str produced by datetime.isoformat is [py |-> "str", chars].      *)
(*   - A dict is a TLA+ record (a function on its keys). dict.copy() makes *)
(*     a new dict with the same values: the values are copied by           *)
(*     reference, so a list inside a dict is a reference into `heap`.      *)
(*   - A list is a reference [py |-> "list", id] into `heap`, the sequence *)
(*     of list objects created so far; heap[id] is its current contents.   *)
(***************************************************************************)
EXTENDS Integers, Sequences, FiniteSets, TLC

VARIABLES
    token_ttl,      \* TokenManager.token_ttl (seconds)
    refresh_ttl,    \* TokenManager.refresh_ttl (seconds)
    store,          \* MemoryTokenStorage._store: key -> stored dict
    heap,           \* the list objects of the Python heap (scopes lists)
    now,            \* the value datetime.utcnow() returns
    drawn,          \* number of plaintexts drawn from secrets.token_urlsafe
    callerRefs,     \* the list objects the caller holds a reference to
    issued,         \* history: per generate_token execution, what was given
    written,        \* history: per storage key, the record as it was when set
    frames,         \* the manager calls begun so far, each with its locals
    sets,           \* history: the storage.set calls made, in order
    faults          \* history: the calls in which a storage call raised

\* the variables of the calls that run one storage call at a time
stepVars == <<frames, sets, faults>>

vars == <<token_ttl, refresh_ttl, store, heap, now, drawn, callerRefs,
          issued, written, frames, sets, faults>>

(***************************************************************************)
(* Bounds of the model.                                                    *)
(***************************************************************************)
MaxPairs == 2       \* generate_token executions (direct or through refresh)
RefreshTtl == 2     \* the refresh_ttl the manager is constructed with (seconds)
MaxTime == 3        \* the clock stops advancing at MaxTime seconds
MaxLists == 2       \* list objects the caller of the storage creates
MaxCalls == 3       \* manager calls begun in the step-by-step specifications

Users == {"u1", "u2"}

None == [py |-> "None"]

MicrosPerSecond == 1000 * 1000

(***************************************************************************)
(* datetime                                                                *)
(***************************************************************************)
DateTime(s, us) == [py |-> "datetime", sec |-> s, microsecond |-> us]

\* datetime + timedelta(seconds = n)
AddSeconds(dt, n) == DateTime(dt.sec + n, dt.microsecond)

\* datetime.__lt__
DateTimeLess(a, b) ==
    \/ a.sec < b.sec
    \/ a.sec = b.sec /\ a.microsecond < b.microsecond

DigitChars == <<"0", "1", "2", "3", "4", "5", "6", "7", "8", "9">>

RECURSIVE DecimalChars(_)
DecimalChars(n) ==
    IF n < 10 THEN <<DigitChars[n + 1]>>
    ELSE DecimalChars(n \div 10) \o <<DigitChars[(n % 10) + 1]>>

RECURSIVE ZeroPad(_, _)
ZeroPad(chars, width) ==
    IF Len(chars) >= width THEN chars ELSE ZeroPad(<<"0">> \o chars, width)

\* int(c) of a digit character
DigitValue == [c \in {DigitChars[i] : i \in 1..10} |->
                  CHOOSE v \in 0..9 : DigitChars[v + 1] = c]

\* int(chars[first..last])
RECURSIVE ParseDigits(_, _, _)
ParseDigits(chars, first, last) ==
    IF last < first THEN 0
    ELSE 10 * ParseDigits(chars, first, last - 1) + DigitValue[chars[last]]

\* (variant) datetime.isoformat(timespec='seconds'): the microseconds are
\* never written
isoformat_seconds(dt) ==
    [py |-> "str", chars |-> ZeroPad(DecimalChars(dt.sec), 2)]

\* datetime.isoformat(): 'YYYY-MM-DDTHH:MM:SS[.ffffff]', fields of fixed
\* width; the microseconds are written, as six digits, only when they are
\* not zero. The timestamps of the model all lie within one minute, so only
\* the fields SS and ffffff vary and only they are written.
isoformat(dt) ==
    [py |-> "str",
     chars |-> ZeroPad(DecimalChars(dt.sec), 2) \o
               (IF dt.microsecond = 0 THEN <<>>
                ELSE <<".">> \o ZeroPad(DecimalChars(dt.microsecond), 6))]

\* datetime.fromisoformat(): the fields are read at their positions, the
\* microseconds when the string goes on after the seconds.
fromisoformat(s) ==
    DateTime(ParseDigits(s.chars, 1, 2),
             IF Len(s.chars) > 2 THEN ParseDigits(s.chars, 4, 9) ELSE 0)

(***************************************************************************)
(* dict                                                                    *)
(***************************************************************************)
\* dict.get(key): None when the key is missing
DictGet(d, k) == IF k \in DOMAIN d THEN d[k] ELSE None

\* d[key] = v on a dict that may or may not have the key
DictPut(d, k, v) == (k :> v) @@ d

IsDateTime(v) == v.py = "datetime"
IsStr(v) == v.py = "str"

(***************************************************************************)
(* MemoryTokenStorage                                                      *)
(***************************************************************************)
storage_set(st, key, value) ==
    LET stored_value ==
            IF "expires_at" \in DOMAIN value /\ IsDateTime(value.expires_at)
            THEN DictPut(value, "expires_at", isoformat(value.expires_at))
            ELSE value
    IN  [k \in DOMAIN st \cup {key} |-> IF k = key THEN stored_value ELSE st[k]]

storage_get(st, key) ==
    IF key \notin DOMAIN st THEN None
    ELSE LET result == st[key]
         IN  IF "expires_at" \in DOMAIN result /\ IsStr(result.expires_at)
             THEN DictPut(result, "expires_at", fromisoformat(result.expires_at))
             ELSE result

storage_delete(st, key) == [k \in DOMAIN st \ {key} |-> st[k]]

(***************************************************************************)
(* list objects                                                            *)
(***************************************************************************)
ListRef(i) == [py |-> "list", id |-> i]

\* the reference a newly created list gets in heap hp
NewRef(hp) == ListRef(Len(hp) + 1)

\* (variant) `[]`: the scopes given are dropped
ScopesOrEmpty_dropped(hp, scopes) ==
    [heap |-> Append(hp, <<>>), ref |-> NewRef(hp)]

\* `scopes or []`: scopes itself when it is a non-empty list, a new empty
\* list when it is None or empty. Yields the heap and the reference.
ScopesOrEmpty(hp, scopes) ==
    IF scopes = None \/ hp[scopes.id] = <<>>
    THEN [heap |-> Append(hp, <<>>), ref |-> NewRef(hp)]
    ELSE [heap |-> hp, ref |-> scopes]

(***************************************************************************)
(* TokenManager                                                            *)
(***************************************************************************)
\* (variant) no hashing: the token itself is the storage key
_hash_token_plain(token) == token

\* hashlib.sha256(token.encode()).hexdigest(): injective on the strings of
\* the model, and never a string secrets.token_urlsafe returns (a hex digest
\* has 64 characters, a 32-byte url-safe token 43).
_hash_token(token) == <<0>> \o token

\* (variant) a generator that repeats itself after two draws
token_urlsafe_repeating(n) == <<((n - 1) % 2) + 1>>

\* secrets.token_urlsafe(32), the n-th draw: a string not drawn before
token_urlsafe(n) == <<n>>

\* d.get('type') == t
TypeIs(d, t) == "type" \in DOMAIN d /\ d.type = t

\* the truth value of d.get('access_token_hash'): the key is there and the
\* string is not empty
Linked(d) == "access_token_hash" \in DOMAIN d /\ d.access_token_hash # <<>>

\* (variant) `not expires_at or expires_at <= datetime.utcnow()`
expired_le(d, clock) ==
    \/ "expires_at" \notin DOMAIN d
    \/ DateTimeLess(d.expires_at, clock)
    \/ d.expires_at = clock

\* `not expires_at or expires_at < datetime.utcnow()`
expired(d, clock) ==
    \/ "expires_at" \notin DOMAIN d
    \/ DateTimeLess(d.expires_at, clock)

generate_token(st, hp, clock, ttl, rttl, user_id, scopes, new_access, new_refresh) ==
    LET access_hash == _hash_token(new_access)
        refresh_hash == _hash_token(new_refresh)
        access_expires == AddSeconds(clock, ttl)
        refresh_expires == AddSeconds(clock, rttl)
        s1 == ScopesOrEmpty(hp, scopes)
        st1 == storage_set(st, access_hash,
                   [user_id |-> user_id,
                    scopes |-> s1.ref,
                    type |-> "access",
                    expires_at |-> access_expires])
        s2 == ScopesOrEmpty(s1.heap, scopes)
        st2 == storage_set(st1, refresh_hash,
                   [user_id |-> user_id,
                    scopes |-> s2.ref,
                    access_token_hash |-> access_hash,
                    type |-> "refresh",
                    expires_at |-> refresh_expires])
    IN  [store |-> st2,
         heap |-> s2.heap,
         ret |-> [access_token |-> new_access,
                  refresh_token |-> new_refresh,
                  expires_in |-> ttl,
                  token_type |-> "Bearer"]]

\* (variant) validate_token that also deletes a record of the wrong type
validate_token_purge_any(st, clock, token) ==
    LET token_hash == _hash_token(token)
        token_data == storage_get(st, token_hash)
    IN  IF token_data = None THEN [store |-> st, ret |-> None]
        ELSE IF ~TypeIs(token_data, "access") \/ expired(token_data, clock)
             THEN [store |-> storage_delete(st, token_hash), ret |-> None]
        ELSE [store |-> st, ret |-> token_data]

\* (variant) validate_token without the delete of the expiry branch
validate_token_no_purge(st, clock, token) ==
    LET token_hash == _hash_token(token)
        token_data == storage_get(st, token_hash)
    IN  IF token_data = None THEN [store |-> st, ret |-> None]
        ELSE IF ~TypeIs(token_data, "access") THEN [store |-> st, ret |-> None]
        ELSE IF expired(token_data, clock) THEN [store |-> st, ret |-> None]
        ELSE [store |-> st, ret |-> token_data]

validate_token(st, clock, token) ==
    LET token_hash == _hash_token(token)
        token_data == storage_get(st, token_hash)
    IN  IF token_data = None THEN [store |-> st, ret |-> None]
        ELSE IF ~TypeIs(token_data, "access") THEN [store |-> st, ret |-> None]
        ELSE IF expired(token_data, clock)
             THEN [store |-> storage_delete(st, token_hash), ret |-> None]
        ELSE [store |-> st, ret |-> token_data]

\* (variant) refresh_token without the delete of the old access record
refresh_token_keeps_access(st, hp, clock, ttl, rttl, token, new_access, new_refresh) ==
    LET refresh_hash == _hash_token(token)
        refresh_data == storage_get(st, refresh_hash)
        st2 == storage_delete(st, refresh_hash)
    IN  IF refresh_data = None THEN [store |-> st, heap |-> hp, ret |-> None]
        ELSE IF ~TypeIs(refresh_data, "refresh")
             THEN [store |-> st, heap |-> hp, ret |-> None]
        ELSE IF expired(refresh_data, clock)
             THEN [store |-> storage_delete(st, refresh_hash), heap |-> hp,
                   ret |-> None]
        ELSE generate_token(st2, hp, clock, ttl, rttl,
                            refresh_data.user_id,
                            DictGet(refresh_data, "scopes"),
                            new_access, new_refresh)

\* (variant) refresh_token without the test of the record's type
refresh_token_any_kind(st, hp, clock, ttl, rttl, token, new_access, new_refresh) ==
    LET refresh_hash == _hash_token(token)
        refresh_data == storage_get(st, refresh_hash)
        st1 == IF Linked(refresh_data)
               THEN storage_delete(st, refresh_data.access_token_hash)
               ELSE st
        st2 == storage_delete(st1, refresh_hash)
    IN  IF refresh_data = None THEN [store |-> st, heap |-> hp, ret |-> None]
        ELSE IF expired(refresh_data, clock)
             THEN [store |-> storage_delete(st, refresh_hash), heap |-> hp,
                   ret |-> None]
        ELSE generate_token(st2, hp, clock, ttl, rttl,
                            refresh_data.user_id,
                            DictGet(refresh_data, "scopes"),
                            new_access, new_refresh)

\* (variant) refresh_token without the delete of the refresh record
refresh_token_no_rotation(st, hp, clock, ttl, rttl, token, new_access, new_refresh) ==
    LET refresh_hash == _hash_token(token)
        refresh_data == storage_get(st, refresh_hash)
        st1 == IF Linked(refresh_data)
               THEN storage_delete(st, refresh_data.access_token_hash)
               ELSE st
    IN  IF refresh_data = None THEN [store |-> st, heap |-> hp, ret |-> None]
        ELSE IF ~TypeIs(refresh_data, "refresh")
             THEN [store |-> st, heap |-> hp, ret |-> None]
        ELSE IF expired(refresh_data, clock)
             THEN [store |-> storage_delete(st, refresh_hash), heap |-> hp,
                   ret |-> None]
        ELSE generate_token(st1, hp, clock, ttl, rttl,
                            refresh_data.user_id,
                            DictGet(refresh_data, "scopes"),
                            new_access, new_refresh)

refresh_token(st, hp, clock, ttl, rttl, token, new_access, new_refresh) ==
    LET refresh_hash == _hash_token(token)
        refresh_data == storage_get(st, refresh_hash)
        st1 == IF Linked(refresh_data)
               THEN storage_delete(st, refresh_data.access_token_hash)
               ELSE st
        st2 == storage_delete(st1, refresh_hash)
    IN  IF refresh_data = None THEN [store |-> st, heap |-> hp, ret |-> None]
        ELSE IF ~TypeIs(refresh_data, "refresh")
             THEN [store |-> st, heap |-> hp, ret |-> None]
        ELSE IF expired(refresh_data, clock)
             THEN [store |-> storage_delete(st, refresh_hash), heap |-> hp,
                   ret |-> None]
        ELSE generate_token(st2, hp, clock, ttl, rttl,
                            refresh_data.user_id,
                            DictGet(refresh_data, "scopes"),
                            new_access, new_refresh)

\* (variant) revoke_token without the delete of the linked access record
revoke_token_unlinked(st, token) ==
    LET token_hash == _hash_token(token)
        token_data == storage_get(st, token_hash)
    IN  IF token_data = None THEN [store |-> st, ret |-> FALSE]
        ELSE [store |-> storage_delete(st, token_hash), ret |-> TRUE]

\* (variant) revoke_token that answers True whatever it found
revoke_token_always_true(st, token) ==
    LET token_hash == _hash_token(token)
        token_data == storage_get(st, token_hash)
        st1 == IF TypeIs(token_data, "refresh") /\ Linked(token_data)
               THEN storage_delete(st, token_data.access_token_hash)
               ELSE st
    IN  IF token_data = None THEN [store |-> st, ret |-> TRUE]
        ELSE [store |-> storage_delete(st1, token_hash), ret |-> TRUE]

revoke_token(st, token) ==
    LET token_hash == _hash_token(token)
        token_data == storage_get(st, token_hash)
        st1 == IF TypeIs(token_data, "refresh") /\ Linked(token_data)
               THEN storage_delete(st, token_data.access_token_hash)
               ELSE st
    IN  IF token_data = None THEN [store |-> st, ret |-> FALSE]
        ELSE [store |-> storage_delete(st1, token_hash), ret |-> TRUE]

(***************************************************************************)
(* The manager and its callers: every public operation runs to completion  *)
(* before the next one starts.                                             *)
(***************************************************************************)
EmptyStore == [k \in {} |-> None]

\* the clock's reading when the manager is constructed: a quarter of a second
\* past a full second, so that every timestamp has microseconds
Epoch == DateTime(0, MicrosPerSecond \div 4)

\* the scopes lists a caller passes: a new list object with these contents
ScopeChoices == {<<"read">>}

\* the plaintexts issued so far
Issued == {token_urlsafe(n) : n \in 1..drawn}

\* a string that is never issued
Unknown == token_urlsafe(2 * MaxPairs + 1)

\* the strings a caller presents: the issued plaintexts and a string that
\* was never issued
Presented == Issued \cup {Unknown}

\* the user ids generate_token is called with. The code never inspects a
\* user id, so the first call is for "u1" without loss of generality.
Callers == IF issued = <<>> THEN {"u1"} ELSE Users

Init ==
    /\ token_ttl = 1
    /\ refresh_ttl = RefreshTtl
    /\ store = EmptyStore
    /\ heap = <<>>
    /\ now = Epoch
    /\ drawn = 0
    /\ callerRefs = {}
    /\ issued = <<>>
    /\ written = EmptyStore
    /\ frames = <<>>
    /\ sets = <<>>
    /\ faults = {}

\* manager.generate_token(user_id) when ~given, and
\* manager.generate_token(user_id, scopes) with scopes a new list otherwise
GenerateToken(user_id, given, contents) ==
    /\ drawn + 2 <= 2 * MaxPairs
    /\ LET hp0 == IF given THEN Append(heap, contents) ELSE heap
           scopes == IF given THEN NewRef(heap) ELSE None
           r == generate_token(store, hp0, now, token_ttl, refresh_ttl,
                               user_id, scopes,
                               token_urlsafe(drawn + 1), token_urlsafe(drawn + 2))
       IN  /\ store' = r.store
           /\ heap' = r.heap
           /\ callerRefs' = callerRefs \cup (IF given THEN {scopes.id} ELSE {})
           /\ issued' = Append(issued,
                               [user_id |-> user_id,
                                scopes |-> contents,
                                access_token |-> r.ret.access_token,
                                refresh_token |-> r.ret.refresh_token,
                                parent |-> <<>>])
    /\ drawn' = drawn + 2
    /\ UNCHANGED <<token_ttl, refresh_ttl, now, written>>
    /\ UNCHANGED stepVars

\* manager.validate_token(token)
ValidateToken(token) ==
    /\ store' = validate_token(store, now, token).store
    /\ UNCHANGED <<token_ttl, refresh_ttl, heap, now, drawn, callerRefs, issued,
                   written>>
    /\ UNCHANGED stepVars

\* manager.refresh_token(token)
RefreshToken(token) ==
    LET r == refresh_token(store, heap, now, token_ttl, refresh_ttl, token,
                           token_urlsafe(drawn + 1), token_urlsafe(drawn + 2))
        refresh_data == storage_get(store, _hash_token(token))
    IN  /\ r.ret # None => drawn + 2 <= 2 * MaxPairs
        /\ store' = r.store
        /\ heap' = r.heap
        /\ IF r.ret = None
           THEN UNCHANGED <<drawn, issued>>
           ELSE /\ drawn' = drawn + 2
                /\ issued' = Append(issued,
                                    [user_id |-> refresh_data.user_id,
                                     scopes |-> heap[refresh_data.scopes.id],
                                     access_token |-> r.ret.access_token,
                                     refresh_token |-> r.ret.refresh_token,
                                     parent |-> token])
        /\ UNCHANGED <<token_ttl, refresh_ttl, now, callerRefs, written>>
        /\ UNCHANGED stepVars

\* manager.revoke_token(token)
RevokeToken(token) ==
    /\ store' = revoke_token(store, token).store
    /\ UNCHANGED <<token_ttl, refresh_ttl, heap, now, drawn, callerRefs, issued,
                   written>>
    /\ UNCHANGED stepVars

\* a second passes between two calls. The manager reads the clock only to
\* compare it with expires_at = (the clock at generate_token) + ttl, so the
\* time that passes before the first token is issued changes nothing.
Tick ==
    /\ drawn > 0
    /\ now.sec < MaxTime
    /\ now' = AddSeconds(now, 1)
    /\ UNCHANGED <<token_ttl, refresh_ttl, store, heap, drawn, callerRefs,
                   issued, written>>
    /\ UNCHANGED stepVars

\* the caller changes a list it holds in place: scopes[:] = contents
MutateList(id, contents) ==
    /\ id \in callerRefs
    /\ heap[id] # contents
    /\ heap' = [heap EXCEPT ![id] = contents]
    /\ UNCHANGED <<token_ttl, refresh_ttl, store, now, drawn, callerRefs,
                   issued, written>>
    /\ UNCHANGED stepVars

Next ==
    \/ \E u \in Callers : GenerateToken(u, FALSE, <<>>)
    \/ \E u \in Callers, c \in ScopeChoices : GenerateToken(u, TRUE, c)
    \/ \E t \in Presented : ValidateToken(t)
    \/ \E t \in Presented : RefreshToken(t)
    \/ \E t \in Presented : RevokeToken(t)
    \/ Tick
    \/ \E id \in callerRefs : MutateList(id, <<"read", "admin">>)

Spec == Init /\ [][Next]_vars

(***************************************************************************)
(* The storage on its own: a caller that uses MemoryTokenStorage directly, *)
(* keeps the records it passes and the records it gets, and changes the    *)
(* lists inside them.                                                      *)
(***************************************************************************)
Keys == {_hash_token(token_urlsafe(1)), _hash_token(token_urlsafe(2))}

SampleTimes == {DateTime(1, 0), DateTime(12, 5), DateTime(9, 500000)}

\* the records a caller builds around the list `scopes`
SampleRecords(scopes) ==
    {[user_id |-> "u1", scopes |-> scopes, type |-> "access", expires_at |-> at]
        : at \in SampleTimes}
    \cup
    {[user_id |-> "u2", scopes |-> scopes, type |-> "refresh",
      access_token_hash |-> _hash_token(token_urlsafe(1)), expires_at |-> at]
        : at \in SampleTimes}

\* a record with the contents of its scopes list in place of the reference
Deep(hp, record) ==
    IF record = None THEN None
    ELSE [record EXCEPT !.scopes = hp[record.scopes.id]]

StorageInit ==
    /\ token_ttl = 1
    /\ refresh_ttl = RefreshTtl
    /\ store = EmptyStore
    /\ heap = <<>>
    /\ now = Epoch
    /\ drawn = 0
    /\ callerRefs = {}
    /\ issued = <<>>
    /\ written = EmptyStore
    /\ frames = <<>>
    /\ sets = <<>>
    /\ faults = {}

\* scopes = list(contents); the caller keeps the reference
NewList(contents) ==
    /\ Len(heap) < MaxLists
    /\ heap' = Append(heap, contents)
    /\ callerRefs' = callerRefs \cup {Len(heap) + 1}
    /\ UNCHANGED <<token_ttl, refresh_ttl, store, now, drawn, issued, written>>
    /\ UNCHANGED stepVars

\* storage.set(key, record), record built around a list the caller holds
StorageSet(key, id, record) ==
    /\ id \in callerRefs
    /\ record \in SampleRecords(ListRef(id))
    /\ store' = storage_set(store, key, record)
    /\ written' = [k \in DOMAIN written \cup {key} |->
                      IF k = key THEN Deep(heap, record) ELSE written[k]]
    /\ UNCHANGED <<token_ttl, refresh_ttl, heap, now, drawn, callerRefs, issued>>
    /\ UNCHANGED stepVars

\* record = storage.get(key); the caller keeps the record
StorageGet(key) ==
    /\ storage_get(store, key) # None
    /\ callerRefs' = callerRefs \cup {storage_get(store, key).scopes.id}
    /\ UNCHANGED <<token_ttl, refresh_ttl, store, heap, now, drawn, issued,
                   written>>
    /\ UNCHANGED stepVars

\* storage.delete(key)
StorageDelete(key) ==
    /\ store' = storage_delete(store, key)
    /\ written' = [k \in DOMAIN written \ {key} |-> written[k]]
    /\ UNCHANGED <<token_ttl, refresh_ttl, heap, now, drawn, callerRefs, issued>>
    /\ UNCHANGED stepVars

StorageNext ==
    \/ \E c \in {<<>>, <<"read">>} : NewList(c)
    \/ \E k \in Keys, id \in callerRefs :
          \E r \in SampleRecords(ListRef(id)) : StorageSet(k, id, r)
    \/ \E k \in Keys : StorageGet(k)
    \/ \E k \in Keys : StorageDelete(k)
    \/ \E id \in callerRefs : MutateList(id, <<"read", "admin">>)

StorageSpec == StorageInit /\ [][StorageNext]_vars

(***************************************************************************)
(* The manager's calls one storage call at a time. The manager holds no    *)
(* lock, so the storage calls of calls that run at the same time           *)
(* interleave; a storage call is atomic. What a call computes between two  *)
(* storage calls (hashing, the draws of secrets.token_urlsafe, reading the *)
(* clock, the tests on the record it got) touches nothing shared but the   *)
(* clock and the generator, and is taken together with the storage call    *)
(* that precedes it (the tests after a get) or follows it (the draws and   *)
(* the clock reading before the first set).                                *)
(*                                                                         *)
(* frames[i] is the i-th call begun: op and the arguments, pc (the storage *)
(* call it makes next, "done" once it has ended), its locals, ret (what it *)
(* returned or raised), calls (the storage calls it has made), seen (the   *)
(* calls that had ended when it began) and ended_after (the calls that had *)
(* ended when it ended).                                                   *)
(***************************************************************************)
\* the exception a storage backend raises, as the outcome of a call
Raised == [py |-> "raise", exc |-> "StorageError"]

\* True and False as return values
Bool(b) == [py |-> "bool", value |-> b]

\* the dict generate_token returns
TokenPair(f, ttl) ==
    [access_token |-> f.access_token,
     refresh_token |-> f.refresh_token,
     expires_in |-> ttl,
     token_type |-> "Bearer"]

\* the locals of a call when it begins
Frame(op, first, token, user_id, scopes, seen) ==
    [op |-> op, pc |-> first, token |-> token,
     user_id |-> user_id, scopes |-> scopes,
     token_data |-> None,
     access_token |-> <<>>, refresh_token |-> <<>>,
     access_expires |-> None, refresh_expires |-> None,
     ret |-> None, calls |-> 0, seen |-> seen, ended_after |-> {}]

\* the call ends with the value v
Return(f, v) == [f EXCEPT !.pc = "done", !.ret = v]

\* (variant) refresh_token without the delete of the refresh record
refresh_order_no_delete == <<"delete_access", "set_access", "set_refresh">>

\* (variant) the new records are written before the old ones are deleted
refresh_order_sets_first ==
    <<"set_access", "set_refresh", "delete_access", "delete_refresh">>

\* the storage calls of refresh_token after its tests, in program order
refresh_order ==
    <<"delete_access", "delete_refresh", "set_access", "set_refresh">>

\* the storage calls of generate_token, in program order
generate_order == <<"set_access", "set_refresh">>

\* (variant) revoke_token without the delete of the token's own record
revoke_order_keeps_token == <<"delete_access">>

\* the storage calls of revoke_token after its test, in program order
revoke_order == <<"delete_access", "delete_token">>

\* the storage calls order[from..] that the call makes: delete_access is
\* made only `if old_access_hash:` (refresh_token) and only for a refresh
\* record `if access_hash:` (revoke_token)
RECURSIVE NextCall(_, _, _)
NextCall(order, from, linked) ==
    IF from > Len(order) THEN "done"
    ELSE IF order[from] = "delete_access" /\ ~linked
         THEN NextCall(order, from + 1, linked)
    ELSE order[from]

Position(order, pc) == CHOOSE i \in DOMAIN order : order[i] = pc

OrderOf(f) ==
    CASE f.op = "generate" -> generate_order
      [] f.op = "refresh" -> refresh_order
      [] f.op = "revoke" -> revoke_order

\* whether the call deletes the linked access record
DeletesLinked(f) ==
    CASE f.op = "refresh" -> Linked(f.token_data)
      [] f.op = "revoke" -> TypeIs(f.token_data, "refresh") /\ Linked(f.token_data)
      [] OTHER -> FALSE

\* the call goes on with the storage call order[from..] it makes next, or
\* returns when there is none
Proceed(f, from, ttl) ==
    LET next == NextCall(OrderOf(f), from, DeletesLinked(f))
    IN  IF next # "done" THEN [f EXCEPT !.pc = next]
        ELSE IF f.op = "revoke" THEN Return(f, Bool(TRUE))
        ELSE Return(f, TokenPair(f, ttl))

\* the frame after the storage call f.pc has returned
Advance(f, ttl) == Proceed(f, Position(OrderOf(f), f.pc) + 1, ttl)

\* the result of one storage call
Effect(f, st, hp, n) == [frame |-> f, store |-> st, heap |-> hp, drawn |-> n,
                         wrote |-> <<>>]

\* storage.set(access_hash, {...}), with the draws and the clock reading
\* that precede it
set_access(f, st, hp, clock, n, ttl, rttl) ==
    LET g == [f EXCEPT !.access_token = token_urlsafe(n + 1),
                       !.refresh_token = token_urlsafe(n + 2),
                       !.access_expires = AddSeconds(clock, ttl),
                       !.refresh_expires = AddSeconds(clock, rttl)]
        s1 == ScopesOrEmpty(hp, g.scopes)
        key == _hash_token(g.access_token)
        value == [user_id |-> g.user_id,
                  scopes |-> s1.ref,
                  type |-> "access",
                  expires_at |-> g.access_expires]
    IN  [frame |-> Advance(g, ttl),
         store |-> storage_set(st, key, value),
         heap |-> s1.heap,
         drawn |-> n + 2,
         wrote |-> <<[key |-> key, value |-> value]>>]

\* (variant) the refresh record links to its own hash
set_refresh_self_linked(f, st, hp, n, ttl) ==
    LET s2 == ScopesOrEmpty(hp, f.scopes)
        key == _hash_token(f.refresh_token)
        value == [user_id |-> f.user_id,
                  scopes |-> s2.ref,
                  access_token_hash |-> key,
                  type |-> "refresh",
                  expires_at |-> f.refresh_expires]
    IN  [frame |-> Advance(f, ttl),
         store |-> storage_set(st, key, value),
         heap |-> s2.heap,
         drawn |-> n,
         wrote |-> <<[key |-> key, value |-> value]>>]

\* storage.set(refresh_hash, {...})
set_refresh(f, st, hp, n, ttl) ==
    LET s2 == ScopesOrEmpty(hp, f.scopes)
        key == _hash_token(f.refresh_token)
        value == [user_id |-> f.user_id,
                  scopes |-> s2.ref,
                  access_token_hash |-> _hash_token(f.access_token),
                  type |-> "refresh",
                  expires_at |-> f.refresh_expires]
    IN  [frame |-> Advance(f, ttl),
         store |-> storage_set(st, key, value),
         heap |-> s2.heap,
         drawn |-> n,
         wrote |-> <<[key |-> key, value |-> value]>>]

\* one storage call of generate_token
generate_step(f, st, hp, clock, n, ttl, rttl) ==
    IF f.pc = "set_access" THEN set_access(f, st, hp, clock, n, ttl, rttl)
    ELSE set_refresh(f, st, hp, n, ttl)

\* one storage call of validate_token
validate_step(f, st, hp, clock, n) ==
    LET token_hash == _hash_token(f.token)
        token_data == storage_get(st, token_hash)
    IN  IF f.pc = "get"
        THEN IF token_data = None THEN Effect(Return(f, None), st, hp, n)
             ELSE IF ~TypeIs(token_data, "access")
                  THEN Effect(Return(f, None), st, hp, n)
             ELSE IF expired(token_data, clock)
                  THEN Effect([f EXCEPT !.pc = "delete_expired",
                                        !.token_data = token_data], st, hp, n)
             ELSE Effect(Return(f, token_data), st, hp, n)
        ELSE Effect(Return(f, None), storage_delete(st, token_hash), hp, n)

\* one storage call of refresh_token
refresh_step(f, st, hp, clock, n, ttl, rttl) ==
    LET refresh_hash == _hash_token(f.token)
        refresh_data == storage_get(st, refresh_hash)
        g == [f EXCEPT !.token_data = refresh_data,
                       !.user_id = refresh_data.user_id,
                       !.scopes = DictGet(refresh_data, "scopes")]
    IN  CASE f.pc = "get" ->
               IF refresh_data = None THEN Effect(Return(f, None), st, hp, n)
               ELSE IF ~TypeIs(refresh_data, "refresh")
                    THEN Effect(Return(f, None), st, hp, n)
               ELSE IF expired(refresh_data, clock)
                    THEN Effect([f EXCEPT !.pc = "delete_expired",
                                          !.token_data = refresh_data],
                                st, hp, n)
               ELSE Effect(Proceed(g, 1, ttl), st, hp, n)
          [] f.pc = "delete_expired" ->
               Effect(Return(f, None), storage_delete(st, refresh_hash), hp, n)
          [] f.pc = "delete_access" ->
               Effect(Advance(f, ttl),
                      storage_delete(st, f.token_data.access_token_hash), hp, n)
          [] f.pc = "delete_refresh" ->
               Effect(Advance(f, ttl), storage_delete(st, refresh_hash), hp, n)
          [] OTHER -> generate_step(f, st, hp, clock, n, ttl, rttl)

\* one storage call of revoke_token
revoke_step(f, st, hp, n, ttl) ==
    LET token_hash == _hash_token(f.token)
        token_data == storage_get(st, token_hash)
        g == [f EXCEPT !.token_data = token_data]
    IN  CASE f.pc = "get" ->
               IF token_data = None
               THEN Effect(Return(f, Bool(FALSE)), st, hp, n)
               ELSE Effect(Proceed(g, 1, ttl), st, hp, n)
          [] f.pc = "delete_access" ->
               Effect(Advance(f, ttl),
                      storage_delete(st, f.token_data.access_token_hash), hp, n)
          [] OTHER ->
               Effect(Advance(f, ttl), storage_delete(st, token_hash), hp, n)

\* the storage call f.pc of the call f, made and returned
step(f, st, hp, clock, n, ttl, rttl) ==
    LET e == CASE f.op = "generate" -> generate_step(f, st, hp, clock, n, ttl, rttl)
               [] f.op = "validate" -> validate_step(f, st, hp, clock, n)
               [] f.op = "refresh" -> refresh_step(f, st, hp, clock, n, ttl, rttl)
               [] f.op = "revoke" -> revoke_step(f, st, hp, n, ttl)
    IN  [e EXCEPT !.frame.calls = f.calls + 1]

\* (variant) the manager repeats a storage call that raised
raise_retry(f) == [f EXCEPT !.calls = f.calls + 1]

\* the storage call f.pc raises: no method of the manager has a try
\* statement, so the exception ends the call
raise(f) == [Return(f, Raised) EXCEPT !.calls = f.calls + 1]

\* the calls that have ended
Ended == {i \in DOMAIN frames : frames[i].pc = "done"}

\* the calls that are between two storage calls
Running == DOMAIN frames \ Ended

\* a caller begins manager.generate_token("u1")
BeginGenerate(alone) ==
    /\ Len(frames) < MaxCalls
    /\ alone => Running = {}
    /\ frames' = Append(frames,
                        Frame("generate", "set_access", <<>>, "u1", None, Ended))
    /\ UNCHANGED <<token_ttl, refresh_ttl, store, heap, now, drawn, callerRefs,
                   issued, written, sets, faults>>

\* a caller begins manager.validate_token(token), manager.refresh_token(token)
\* or manager.revoke_token(token)
BeginCall(alone, op, token) ==
    /\ Len(frames) < MaxCalls
    /\ alone => Running = {}
    /\ frames' = Append(frames, Frame(op, "get", token, "", None, Ended))
    /\ UNCHANGED <<token_ttl, refresh_ttl, store, heap, now, drawn, callerRefs,
                   issued, written, sets, faults>>

\* the call i makes its next storage call, which returns
Step(i) ==
    /\ i \in Running
    /\ LET e == step(frames[i], store, heap, now, drawn, token_ttl, refresh_ttl)
       IN  /\ frames' = [frames EXCEPT ![i] =
                         IF e.frame.pc = "done"
                         THEN [e.frame EXCEPT !.ended_after = Ended]
                         ELSE e.frame]
           /\ store' = e.store
           /\ heap' = e.heap
           /\ drawn' = e.drawn
           /\ sets' = sets \o [j \in DOMAIN e.wrote |->
                                  [key |-> e.wrote[j].key,
                                   value |-> e.wrote[j].value,
                                   call |-> i]]
    /\ UNCHANGED <<token_ttl, refresh_ttl, now, callerRefs, issued, written,
                   faults>>

\* the call i makes its next storage call, which raises
StorageFails(i) ==
    /\ i \in Running
    /\ frames' = [frames EXCEPT ![i] =
                     [raise(frames[i]) EXCEPT !.ended_after = Ended]]
    /\ faults' = faults \cup {[call |-> i, calls |-> frames[i].calls + 1]}
    /\ UNCHANGED <<token_ttl, refresh_ttl, store, heap, now, drawn, callerRefs,
                   issued, written, sets>>

\* calls that run at the same time, on a storage that does not fail. The
\* calls of a race run within one reading of the clock (the clock advances
\* in FailureSpec, where the calls run one after the other).
ConcurrentNext ==
    \/ BeginGenerate(FALSE)
    \/ \E op \in {"validate", "refresh", "revoke"}, t \in Issued :
          BeginCall(FALSE, op, t)
    \/ \E i \in DOMAIN frames : Step(i)

ConcurrentSpec == Init /\ [][ConcurrentNext]_vars

\* calls that run one after the other, on a storage any call of which may
\* raise
FailureNext ==
    \/ BeginGenerate(TRUE)
    \/ \E op \in {"validate", "refresh", "revoke"}, t \in Issued :
          BeginCall(TRUE, op, t)
    \/ \E i \in DOMAIN frames : Step(i)
    \/ \E i \in DOMAIN frames : StorageFails(i)
    \/ Tick

FailureSpec == Init /\ [][FailureNext]_vars

(***************************************************************************)
(* What a call would return in the current state.                          *)
(***************************************************************************)
Hashed(t) == _hash_token(t)

ValidatesIn(st, t) == validate_token(st, now, t).ret # None

RefreshesIn(st, t) ==
    refresh_token(st, heap, now, token_ttl, refresh_ttl, t,
                  token_urlsafe(drawn + 1), token_urlsafe(drawn + 2)).ret # None

Validates(t) == ValidatesIn(store, t)
Refreshes(t) == RefreshesIn(store, t)

\* the access token issued together with refresh token r
SiblingOf(r) ==
    issued[CHOOSE j \in DOMAIN issued : issued[j].refresh_token = r].access_token

\* the generate_token executions that a refresh_token call made
Refreshed == {i \in DOMAIN issued : issued[i].parent # <<>>}

(***************************************************************************)
(* C1. One-time refresh: once refresh_token(r) has returned a new pair,    *)
(* refresh_token(r) returns None in every later state, and so does         *)
(* validate_token on the access token that was issued together with r.     *)
(***************************************************************************)
C1_OneTimeRefresh ==
    \A i \in Refreshed :
        /\ ~Refreshes(issued[i].parent)
        /\ ~Validates(SiblingOf(issued[i].parent))

\* a refresh has returned a new pair
C1_Witness == Refreshed # {}

GivenScopes == ScopeChoices \cup {<<>>}

\* the record validate_token returns right after generate_token(user_id)
\* (~given) or generate_token(user_id, list(contents)) (given), with the
\* contents of its scopes list in place of the reference
RoundTrip(user_id, given, contents) ==
    LET hp0 == IF given THEN Append(heap, contents) ELSE heap
        scopes == IF given THEN NewRef(heap) ELSE None
        g == generate_token(store, hp0, now, token_ttl, refresh_ttl,
                            user_id, scopes,
                            token_urlsafe(drawn + 1), token_urlsafe(drawn + 2))
    IN  Deep(g.heap, validate_token(g.store, now, g.ret.access_token).ret)

(***************************************************************************)
(* C2. Round-trip: in every reachable state, for every user_id and every   *)
(* scopes value (omitted, an empty list, a non-empty list), validate_token *)
(* on the access token that generate_token(user_id, scopes) returns        *)
(* succeeds and returns that user_id and those scopes (the empty sequence  *)
(* when scopes was omitted).                                               *)
(***************************************************************************)
C2_RoundTrip ==
    \A u \in Users :
        /\ LET context == RoundTrip(u, FALSE, <<>>)
           IN  /\ context # None
               /\ context.user_id = u
               /\ context.scopes = <<>>
        /\ \A c \in GivenScopes :
              LET context == RoundTrip(u, TRUE, c)
              IN  /\ context # None
                  /\ context.user_id = u
                  /\ context.scopes = c

\* generate_token("u2", ["read"]) has returned, and its access token
\* validates with what was given
C2_Witness ==
    \E i \in DOMAIN issued :
        /\ issued[i].parent = <<>>
        /\ issued[i].user_id = "u2"
        /\ issued[i].scopes = <<"read">>
        /\ LET context == Deep(heap, validate_token(store, now,
                                                      issued[i].access_token).ret)
           IN  context # None /\ context.scopes = <<"read">>

(***************************************************************************)
(* C3. Revocation asymmetry: for every pair (A, R) issued together, if     *)
(* refresh_token accepts R then it still accepts R after revoke_token(A),  *)
(* and R's record is untouched; after revoke_token(R) both                 *)
(* refresh_token(R) and validate_token(A) return None.                     *)
(***************************************************************************)
C3_RevocationAsymmetry ==
    \A i \in DOMAIN issued :
        LET A == issued[i].access_token
            R == issued[i].refresh_token
            afterA == revoke_token(store, A).store
            afterR == revoke_token(store, R).store
        IN  /\ Refreshes(R) =>
                  /\ RefreshesIn(afterA, R)
                  /\ storage_get(afterA, Hashed(R)) = storage_get(store, Hashed(R))
            /\ ~RefreshesIn(afterR, R)
            /\ ~ValidatesIn(afterR, A)

\* an access token has been revoked (nothing has expired yet and no refresh
\* has run) and its sibling refresh token is still accepted
C3_Witness ==
    /\ now = Epoch
    /\ Refreshed = {}
    /\ \E i \in DOMAIN issued :
          /\ Hashed(issued[i].access_token) \notin DOMAIN store
          /\ Refreshes(issued[i].refresh_token)

RecordOf(t) == storage_get(store, Hashed(t))

\* the record is stored and its expires_at is in the past
Stale(record) == record # None /\ DateTimeLess(record.expires_at, now)

\* validate_token(t) returns None and leaves no record under t's hash
PurgedByValidate(t) ==
    LET v == validate_token(store, now, t)
    IN  v.ret = None /\ storage_get(v.store, Hashed(t)) = None

(***************************************************************************)
(* C4, as claimed. Expiry purge: for any stored record whose expires_at is *)
(* in the past, validate_token on its plaintext returns None and           *)
(* afterwards get on the token's hash returns None.                        *)
(***************************************************************************)
C4_ExpiryPurge_AsClaimed ==
    \A t \in Issued : Stale(RecordOf(t)) => PurgedByValidate(t)

(***************************************************************************)
(* C4, as amended. Expiry purge: for any stored record whose expires_at is *)
(* in the past, validate_token on its plaintext returns None; when the     *)
(* record is of type 'access', get on the token's hash returns None        *)
(* afterwards; when it is of type 'refresh', validate_token leaves the     *)
(* storage as it is.                                                       *)
(***************************************************************************)
C4_ExpiryPurge ==
    \A t \in Issued :
        LET record == RecordOf(t)
            v == validate_token(store, now, t)
        IN  Stale(record) =>
                /\ v.ret = None
                /\ TypeIs(record, "access") => storage_get(v.store, Hashed(t)) = None
                /\ TypeIs(record, "refresh") => v.store = store

\* an access record whose expires_at is in the past is in the storage
C4_Witness ==
    \E t \in Issued : Stale(RecordOf(t)) /\ TypeIs(RecordOf(t), "access")

(***************************************************************************)
(* C5, as claimed. Expiry boundary: validate_token and refresh_token       *)
(* return None whenever the record's expires_at is at or before now.       *)
(***************************************************************************)
C5_ExpiryBoundary_AsClaimed ==
    \A t \in Issued :
        LET record == RecordOf(t)
        IN  (record # None /\ ~DateTimeLess(now, record.expires_at))
                => ~Validates(t) /\ ~Refreshes(t)

(***************************************************************************)
(* C5, as amended. Expiry boundary: validate_token and refresh_token       *)
(* return None whenever the record's expires_at is before now; when        *)
(* expires_at is equal to now the token is still accepted (by              *)
(* validate_token for an access record, by refresh_token for a refresh     *)
(* record).                                                                *)
(***************************************************************************)
C5_ExpiryBoundary ==
    \A t \in Issued :
        LET record == RecordOf(t)
        IN  record # None =>
                /\ DateTimeLess(record.expires_at, now)
                       => ~Validates(t) /\ ~Refreshes(t)
                /\ record.expires_at = now =>
                       /\ TypeIs(record, "access") => Validates(t)
                       /\ TypeIs(record, "refresh") => Refreshes(t)

\* a stored record's expires_at is exactly now
C5_Witness ==
    \E t \in Issued : RecordOf(t) # None /\ RecordOf(t).expires_at = now

\* validate_token or refresh_token accepts t in the state given
AcceptedAt(st, hp, clock, n, t) ==
    \/ validate_token(st, clock, t).ret # None
    \/ refresh_token(st, hp, clock, token_ttl, refresh_ttl, t,
                     token_urlsafe(n + 1), token_urlsafe(n + 2)).ret # None

Accepted(t) == AcceptedAt(store, heap, now, drawn, t)

\* the generate_token execution that issued refresh token r
IssuedWith(r) == issued[CHOOSE j \in DOMAIN issued : issued[j].refresh_token = r]

\* t is spent (no record under its hash: revoked, consumed by a refresh or
\* purged) or expired (its record's expires_at is before the clock)
DeadAt(st, clock, t) ==
    LET record == storage_get(st, Hashed(t))
    IN  record = None \/ DateTimeLess(record.expires_at, clock)

(***************************************************************************)
(* C6. No resurrection: in every reachable state an issued plaintext is    *)
(* rejected by both validate_token and refresh_token exactly when it is    *)
(* spent (revoked, consumed by a refresh, or purged: no record under its   *)
(* hash) or expired (expires_at before now); and a plaintext that is spent *)
(* or expired is still spent or expired after any further step (a step    *)
(* that leaves the storage and the clock as they are changes neither).     *)
(* Hence it is accepted by neither operation ever again.                   *)
(***************************************************************************)
C6_NoResurrection ==
    /\ [](\A t \in Issued : DeadAt(store, now, t) <=> ~Accepted(t))
    /\ [][(UNCHANGED <<store, now>>)
           \/ (\A t \in Issued :
                  DeadAt(store, now, t) => DeadAt(store', now', t))]_vars

\* the first pair is no longer accepted, and a generate_token ran since
C6_Witness ==
    /\ drawn = 4
    /\ ~Accepted(token_urlsafe(1))
    /\ ~Accepted(token_urlsafe(2))

(***************************************************************************)
(* C7. Idempotent revoke: revoke_token on a plaintext that has no record   *)
(* (never issued, or removed before) returns False and leaves the storage  *)
(* as it is; in particular a second revoke_token on the same plaintext     *)
(* returns False and changes nothing, whatever the first one did.          *)
(***************************************************************************)
C7_IdempotentRevoke ==
    \A t \in Presented :
        LET first == revoke_token(store, t)
            second == revoke_token(first.store, t)
        IN  /\ Hashed(t) \notin DOMAIN store
                   => first.ret = FALSE /\ first.store = store
            /\ second.ret = FALSE
            /\ second.store = first.store

\* a revoke_token has removed an issued token's record (nothing has expired
\* yet and no refresh has run)
C7_Witness ==
    /\ now = Epoch
    /\ Refreshed = {}
    /\ \E t \in Issued : Hashed(t) \notin DOMAIN store

(***************************************************************************)
(* C8. Refresh preserves the subject: the pair a successful                *)
(* refresh_token(R) returned differs from the pair R belongs to, and       *)
(* whenever validate_token accepts its access token it returns the user_id *)
(* and the scopes given when R was issued.                                 *)
(***************************************************************************)
C8_RefreshPreservesSubject ==
    \A i \in Refreshed :
        LET given == IssuedWith(issued[i].parent)
            context == Deep(heap, validate_token(store, now, issued[i].access_token).ret)
        IN  /\ {issued[i].access_token, issued[i].refresh_token}
                   \cap {given.access_token, given.refresh_token} = {}
            /\ context # None =>
                   /\ context.user_id = given.user_id
                   /\ context.scopes = given.scopes

(***************************************************************************)
(* C9. Storage copy isolation: what get(key) returns, the contents of the  *)
(* scopes list included, is what was passed to the last set(key, record),  *)
(* whatever the caller did since to the record it passed or to a record it *)
(* got.                                                                    *)
(***************************************************************************)
C9_CopyIsolation ==
    \A k \in DOMAIN store : Deep(heap, storage_get(store, k)) = written[k]

(***************************************************************************)
(* C10. Storage round-trip and idempotent delete: in every reachable       *)
(* storage, get(key) after set(key, record) returns a record equal to      *)
(* record, expires_at included; get on a key without a record returns      *)
(* None; delete on a key without a record leaves the storage as it is;     *)
(* get(key) after delete(key) returns None.                                *)
(***************************************************************************)
C10_StorageRoundTrip ==
    \A k \in Keys :
        /\ \A id \in 1..MaxLists :
              \A record \in SampleRecords(ListRef(id)) :
                  storage_get(storage_set(store, k, record), k) = record
        /\ k \notin DOMAIN store =>
              /\ storage_get(store, k) = None
              /\ storage_delete(store, k) = store
        /\ storage_get(storage_delete(store, k), k) = None

\* a record whose timestamp has microseconds is stored, and get returns it
\* as it was set
C10_Witness ==
    \E k \in DOMAIN store :
        /\ storage_get(store, k).expires_at.microsecond = 5
        /\ Deep(heap, storage_get(store, k)) = written[k]

\* the issued plaintext whose hash is the storage key k
PlainOf(k) == CHOOSE t \in Issued : Hashed(t) = k

FieldNames == {"user_id", "scopes", "type", "expires_at", "access_token_hash"}

(***************************************************************************)
(* C11. Plaintext is never persisted: in every reachable state every key   *)
(* of the storage is the hash of an issued plaintext and is not itself a   *)
(* plaintext; a stored record has only the fields user_id (a user id),     *)
(* scopes (a list of scope names), type ('access' or 'refresh'),           *)
(* expires_at (an ISO string) and, on a refresh record, access_token_hash, *)
(* which is the hash of the sibling access token and not its plaintext.    *)
(***************************************************************************)
C11_NoPlaintextStored ==
    \A k \in DOMAIN store :
        LET record == store[k]
        IN  /\ k \in {Hashed(t) : t \in Issued}
            /\ k \notin Issued
            /\ DOMAIN record \subseteq FieldNames
            /\ record.user_id \in Users
            /\ record.type \in {"access", "refresh"}
            /\ record.scopes.py = "list"
            /\ \A i \in DOMAIN heap[record.scopes.id] :
                   heap[record.scopes.id][i] \in {"read", "admin"}
            /\ record.expires_at.py = "str"
            /\ ("access_token_hash" \in DOMAIN record) = (record.type = "refresh")
            /\ record.type = "refresh" =>
                   /\ record.access_token_hash = Hashed(SiblingOf(PlainOf(k)))
                   /\ record.access_token_hash \notin Issued

\* both records of a pair are in the storage
C11_Witness ==
    \E i \in DOMAIN issued :
        {Hashed(issued[i].access_token), Hashed(issued[i].refresh_token)}
            \subseteq DOMAIN store

\* what refresh_token(t) would do in the current state
RefreshOf(t) ==
    refresh_token(store, heap, now, token_ttl, refresh_ttl, t,
                  token_urlsafe(drawn + 1), token_urlsafe(drawn + 2))

(***************************************************************************)
(* C14. Net effect of a successful refresh: when refresh_token(R) returns  *)
(* a pair, the storage after the call is the storage before it without the *)
(* record under hash(R) and without the record under R's linked access     *)
(* hash, plus exactly two new records under the hashes of the two returned *)
(* plaintexts, one of type 'access' and one of type 'refresh' that links   *)
(* to it; every other record is as it was.                                 *)
(***************************************************************************)
C14_RefreshNetEffect ==
    \A t \in Issued :
        LET r == RefreshOf(t)
            h == Hashed(t)
            old == RecordOf(t).access_token_hash
            na == Hashed(r.ret.access_token)
            nr == Hashed(r.ret.refresh_token)
        IN  r.ret # None =>
                /\ na # nr
                /\ {na, nr} \cap DOMAIN store = {}
                /\ DOMAIN r.store = (DOMAIN store \ {h, old}) \cup {na, nr}
                /\ \A k \in DOMAIN store \ {h, old} : r.store[k] = store[k]
                /\ r.store[na].type = "access"
                /\ r.store[nr].type = "refresh"
                /\ r.store[nr].access_token_hash = na

\* after one refresh has run, a refresh token is accepted while the access
\* record it links to is still stored, next to records of another pair
C14_Witness ==
    /\ Refreshed # {}
    /\ \E t \in Issued :
          /\ Refreshes(t)
          /\ RecordOf(t).access_token_hash \in DOMAIN store

(***************************************************************************)
(* C15. validate_token is read-only except on expiry: validate_token never *)
(* adds or changes a record; when it returns a record, or returns None     *)
(* because there is no record or the record is not of type 'access', the   *)
(* storage is as it was; when the record is an access record whose         *)
(* expires_at is before now, the only change is that the record under the  *)
(* presented token's hash is gone.                                         *)
(***************************************************************************)
C15_ValidateReadOnly ==
    \A t \in Presented :
        LET v == validate_token(store, now, t)
            record == RecordOf(t)
        IN  /\ DOMAIN v.store \subseteq DOMAIN store
            /\ \A k \in DOMAIN v.store : v.store[k] = store[k]
            /\ (v.ret # None \/ record = None \/ ~TypeIs(record, "access"))
                   => v.store = store
            /\ (record # None /\ TypeIs(record, "access") /\ Stale(record))
                   => DOMAIN v.store = DOMAIN store \ {Hashed(t)}

\* the storage holds an expired access record together with a refresh record
C15_Witness ==
    \E t, u \in Issued :
        /\ Stale(RecordOf(t)) /\ TypeIs(RecordOf(t), "access")
        /\ RecordOf(u) # None /\ TypeIs(RecordOf(u), "refresh")

(***************************************************************************)
(* C16. Access tokens cannot be refreshed: refresh_token on an access      *)
(* token A that validate_token accepts returns None, creates no list and   *)
(* leaves the storage as it is, so that afterwards validate_token(A) still *)
(* succeeds and every refresh token that was usable still is.              *)
(***************************************************************************)
C16_AccessNotRefreshable ==
    \A t \in Issued :
        Validates(t) =>
            LET r == RefreshOf(t)
            IN  /\ r.ret = None
                /\ r.store = store
                /\ r.heap = heap
                /\ ValidatesIn(r.store, t)
                /\ \A u \in Issued : Refreshes(u) => RefreshesIn(r.store, u)

\* an access token validates and its sibling refresh token is usable
C16_Witness ==
    \E i \in DOMAIN issued :
        Validates(issued[i].access_token) /\ Refreshes(issued[i].refresh_token)

(***************************************************************************)
(* The calls of the step-by-step specifications.                           *)
(***************************************************************************)
\* the call i is a refresh_token(t) that has ended
RefreshEnded(i, t) ==
    /\ frames[i].op = "refresh"
    /\ frames[i].token = t
    /\ frames[i].pc = "done"

\* the call i is a refresh_token(t) that has returned a new pair
Minted(i, t) == RefreshEnded(i, t) /\ frames[i].ret \notin {None, Raised}

\* the call i is a revoke_token(t) that has returned True
Revoked(i, t) ==
    /\ frames[i].op = "revoke"
    /\ frames[i].token = t
    /\ frames[i].pc = "done"
    /\ frames[i].ret = Bool(TRUE)

(***************************************************************************)
(* C12, as claimed. One-time refresh under concurrency: of the             *)
(* refresh_token calls on the same plaintext r, whatever the order of      *)
(* their storage calls, at most one returns a new pair.                    *)
(***************************************************************************)
C12_OneSuccessor_AsClaimed ==
    \A t \in Issued :
        \A i, j \in DOMAIN frames : Minted(i, t) /\ Minted(j, t) => i = j

(***************************************************************************)
(* C12, as amended. One-time refresh under concurrency: a refresh_token(r) *)
(* call whose storage get runs when r's record is gone returns None and    *)
(* changes nothing, and no refresh_token(r) call that begins after another *)
(* refresh_token(r) call has returned a new pair returns a new pair.       *)
(* (Calls whose gets all run before the first delete may each return one.) *)
(***************************************************************************)
C12_OneSuccessor ==
    \A t \in Issued :
        /\ \A i, j \in DOMAIN frames :
              (Minted(j, t) /\ RefreshEnded(i, t) /\ j \in frames[i].seen)
                  => ~Minted(i, t)
        /\ \A i \in Running :
              (/\ frames[i].op = "refresh"
               /\ frames[i].token = t
               /\ frames[i].pc = "get"
               /\ Hashed(t) \notin DOMAIN store)
                  => LET e == step(frames[i], store, heap, now, drawn,
                                   token_ttl, refresh_ttl)
                     IN  /\ e.frame.pc = "done"
                         /\ e.frame.ret = None
                         /\ e.store = store

\* a refresh_token(r) that began after another one had returned a pair has
\* ended
C12_Witness ==
    \E t \in Issued :
        \E i, j \in DOMAIN frames :
            Minted(j, t) /\ RefreshEnded(i, t) /\ j \in frames[i].seen

(***************************************************************************)
(* C13, as claimed. Revoking a refresh token ends its session under every  *)
(* interleaving: a refresh_token(R) call that returns after                *)
(* revoke_token(R) has returned True does not return a new pair.           *)
(***************************************************************************)
C13_RevokeEndsSession_AsClaimed ==
    \A t \in Issued :
        \A i, j \in DOMAIN frames :
            (Revoked(i, t) /\ RefreshEnded(j, t) /\ i \in frames[j].ended_after)
                => ~Minted(j, t)

(***************************************************************************)
(* C13, as amended. Revoking a refresh token ends its session: once        *)
(* revoke_token(R) has returned True, neither R's record nor the access    *)
(* record R links to is in the storage, and no refresh_token(R) call that  *)
(* begins afterwards returns a new pair. (A refresh_token(R) call that got *)
(* R's record before the revoke deleted it still returns a new pair.)      *)
(***************************************************************************)
C13_RevokeEndsSession ==
    \A t \in Issued :
        \A i \in DOMAIN frames :
            Revoked(i, t) =>
                /\ Hashed(t) \notin DOMAIN store
                /\ DeletesLinked(frames[i]) =>
                       frames[i].token_data.access_token_hash \notin DOMAIN store
                /\ \A j \in DOMAIN frames :
                       (RefreshEnded(j, t) /\ i \in frames[j].seen)
                           => ~Minted(j, t)

\* a refresh_token(R) that began after revoke_token(R) had returned True has
\* ended
C13_Witness ==
    \E t \in Issued :
        \E i, j \in DOMAIN frames :
            /\ Revoked(i, t)
            /\ TypeIs(frames[i].token_data, "refresh")
            /\ RefreshEnded(j, t)
            /\ i \in frames[j].seen

(***************************************************************************)
(* C17. Storage failures propagate and are not retried: a call in which a  *)
(* storage call raised has ended, its outcome is that exception (not a     *)
(* pair, a record, None or a boolean), and the storage call that raised is *)
(* the last storage call it made.                                          *)
(***************************************************************************)
C17_FailuresPropagate ==
    \A x \in faults :
        /\ frames[x.call].pc = "done"
        /\ frames[x.call].ret = Raised
        /\ frames[x.call].calls = x.calls

\* a refresh_token call whose get had returned a record ended with the
\* exception of a later storage call
C17_Witness ==
    \E x \in faults :
        /\ frames[x.call].op = "refresh"
        /\ frames[x.call].token_data # None
        /\ x.calls >= 2

\* the storage.set calls that wrote an access record, a refresh record
AccessSets == {i \in DOMAIN sets : sets[i].value.type = "access"}
RefreshSets == {i \in DOMAIN sets : sets[i].value.type = "refresh"}

\* the refresh records ever written that link to the key of set call i
Linkers(i) ==
    {j \in RefreshSets : sets[j].value.access_token_hash = sets[i].key}

\* every refresh record in the storage carries a link, no access record
\* does, and no two refresh records ever written link to the same hash
LinksWellFormed ==
    /\ \A k \in DOMAIN store :
          /\ TypeIs(store[k], "refresh") => Linked(store[k])
          /\ TypeIs(store[k], "access") =>
                 "access_token_hash" \notin DOMAIN store[k]
    /\ \A i, j \in RefreshSets :
          sets[i].value.access_token_hash = sets[j].value.access_token_hash
              => i = j

(***************************************************************************)
(* C18, as claimed. Pairing invariant: in every reachable state, the       *)
(* states between the storage calls of a call included, every refresh      *)
(* record in the storage carries a non-empty link, no access record does,  *)
(* no two refresh records ever written link to the same access hash, and   *)
(* each access record ever written is linked by exactly one refresh        *)
(* record, written by the same call.                                       *)
(***************************************************************************)
C18_Pairing_AsClaimed ==
    /\ LinksWellFormed
    /\ \A i \in AccessSets :
          /\ Cardinality(Linkers(i)) = 1
          /\ \A j \in Linkers(i) : sets[j].call = sets[i].call

(***************************************************************************)
(* C18, as amended. Pairing invariant: in every reachable state, the       *)
(* states between the storage calls of a call included, every refresh      *)
(* record in the storage carries a non-empty link, no access record does,  *)
(* no two refresh records ever written link to the same access hash, and   *)
(* each access record ever written is linked by at most one refresh        *)
(* record, written by the same call; by exactly one once the call that     *)
(* wrote it has returned its pair.                                         *)
(***************************************************************************)
C18_Pairing ==
    /\ LinksWellFormed
    /\ \A i \in AccessSets :
          /\ Cardinality(Linkers(i)) <= 1
          /\ \A j \in Linkers(i) : sets[j].call = sets[i].call
          /\ (frames[sets[i].call].pc = "done"
                 /\ frames[sets[i].call].ret # Raised)
                => Cardinality(Linkers(i)) = 1

\* a refresh_token call has returned the pair it wrote while another call
\* has written its access record and not yet its refresh record
C18_Witness ==
    \E i, j \in AccessSets :
        /\ frames[sets[i].call].op = "refresh"
        /\ frames[sets[i].call].pc = "done"
        /\ Cardinality(Linkers(i)) = 1
        /\ frames[sets[j].call].pc = "set_refresh"

(***************************************************************************)
(* C19. Records are write-once: a key that gets a record is the hash of a  *)
(* plaintext drawn by that very call (no key is set twice), and the record *)
(* under a key that stays in the storage, the contents of its scopes list  *)
(* included, is the same after every step.                                 *)
(***************************************************************************)
C19_WriteOnce ==
    [][/\ \A k \in DOMAIN store' \ DOMAIN store :
             k \notin {Hashed(t) : t \in Issued}
       /\ \A k \in DOMAIN store \cap DOMAIN store' :
             Deep(heap', storage_get(store', k))
                 = Deep(heap, storage_get(store, k))]_vars

\* the storage.set calls the call i has made
Wrote(i) == {j \in DOMAIN sets : sets[j].call = i}

(***************************************************************************)
(* C20. Rotation ordering: in every state of a refresh_token(R) call that  *)
(* has passed its tests, the old access record is gone when the call is    *)
(* about to delete the old refresh record, and both old records are gone   *)
(* once the call has written a new record; hence the old and the new       *)
(* access token never both validate, and the new refresh record is never   *)
(* in the storage together with the old one.                               *)
(***************************************************************************)
C20_RotationOrdering ==
    \A i \in DOMAIN frames :
        (frames[i].op = "refresh" /\ frames[i].token_data # None
                                 /\ Linked(frames[i].token_data)) =>
            LET old_access == frames[i].token_data.access_token_hash
                old_refresh == Hashed(frames[i].token)
                new_access == frames[i].access_token
                new_refresh == frames[i].refresh_token
            IN  /\ frames[i].pc = "delete_refresh" =>
                       old_access \notin DOMAIN store
                /\ Wrote(i) # {} =>
                       {old_access, old_refresh} \cap DOMAIN store = {}
                /\ (new_access # <<>> /\ ValidatesIn(store, new_access))
                       => ~ValidatesIn(store, PlainOf(old_access))
                /\ (new_refresh # <<>> /\ Hashed(new_refresh) \in DOMAIN store)
                       => old_refresh \notin DOMAIN store

\* a refresh_token call has written both new records and returned its pair
C20_Witness ==
    \E i \in DOMAIN frames :
        /\ Minted(i, frames[i].token)
        /\ Cardinality(Wrote(i)) = 2
        /\ ValidatesIn(store, frames[i].access_token)

====
